---- MODULE Spec2Model ----
(***************************************************************************)
(* Model of the CPU scheduler simulator of scheduler_skeleton.c: the ready *)
(* queue (the global circular buffer FCFSQ), the process table, the CPU    *)
(* pool, the timeline and the main loop of simulate, one action per        *)
(* handler the loop calls.                                                 *)
(***************************************************************************)
EXTENDS Integers, Sequences, FiniteSets, TLC

VARIABLES
    algorithm,        \* Algorithm of the run (argument of simulate)
    cpu_count,        \* number of CPUs (argument of simulate)
    time_quantum,     \* RR quantum (argument of simulate)
    process_count,    \* number of loaded processes
    processes,        \* Process table: 0..process_count-1 -> Process
    cpus,             \* CPU pool: 0..cpu_count-1 -> CPU
    FCFSQ,            \* the global ready queue
    arrived_indices,  \* simulate's arrived_indices[0..arrival_count-1]
    timeline,         \* written rows of the timeline: tick -> (cpu -> pid or -1)
    timeline_capacity,
    current_time,
    completed_count,
    bruh,             \* simulate's iteration counter
    overflow_errors,  \* number of "Ready queue overflow!" messages on stderr
    warned,           \* the abort warning of the safety break was printed
    loop_exit,        \* how the main loop ended: "none" while it runs
    report,           \* what print_process_stats prints per process
    pc                \* position in simulate

vars == <<algorithm, cpu_count, time_quantum, process_count, processes, cpus,
          FCFSQ, arrived_indices, timeline, timeline_capacity, current_time,
          completed_count, bruh, overflow_errors, warned, loop_exit, report, pc>>

(***************************** constants ***********************************)

FCFS == 0
RR == 1
SRTF == 2
SJF == 3

WAITING == 0
RUNNING == 1
COMPLETED == 2
READY == 3

DEFAULT_TIME_QUANTUM == 2
MAX_PROCESSES == 500
INITIAL_TIMELINE_CAPACITY == 1000
\* the factor of the safety break: current_time > timeline_capacity * 5
SAFETY_FACTOR == 5
\* the limit of simulate's iteration counter: if (bruh > 100) break
BRUH_LIMIT == 100
\* a CPU with no process: current_process == NULL; also dequeue's "empty"
NULL == -1

(***************************** bounds **************************************)

MaxProcs == 2
MaxCpus == 2
MaxQuantum == 2
\* the values a line of a generic input file takes
ArrivalTimes == 0..1
BurstTimes == 1..2
Priorities == 0..1
\* no run is followed beyond this many ticks (never reached by the program)
TickCap == 110

(***************************** queue operations ****************************)

\* a slot of the global array: FCFSQ is zero-initialised static storage
Slot(arr, i) == IF i \in DOMAIN arr THEN arr[i] ELSE 0

WriteSlot(arr, i, v) == (i :> v) @@ arr

init_queue ==
    [process_indices |-> [i \in {} |-> 0], front |-> 0, rear |-> -1, size |-> 0]

\* The queue operations work on st = [q |-> queue, errs |-> overflow messages]
enqueue(st, process_idx) ==
    IF st.q.size >= MAX_PROCESSES
    THEN [st EXCEPT !.errs = @ + 1]
    ELSE LET r == (st.q.rear + 1) % MAX_PROCESSES
         IN  [st EXCEPT !.q.rear = r,
                        !.q.process_indices = WriteSlot(@, r, process_idx),
                        !.q.size = @ + 1]

\* GoesBefore that also puts the new entry before an entry of the same
\* remaining_time, whatever the priorities
GoesBefore_unstable(new_time, new_priority, cur_time, cur_priority) ==
    new_time <= cur_time

\* GoesBefore with the priority comparison turned round
GoesBefore_lower(new_time, new_priority, cur_time, cur_priority) ==
    \/ new_time < cur_time
    \/ (new_time = cur_time /\ new_priority < cur_priority)

\* the comparison of enqueue_priority's scan: the new entry goes before cur
GoesBefore(new_time, new_priority, cur_time, cur_priority) ==
    \/ new_time < cur_time
    \/ (new_time = cur_time /\ new_priority > cur_priority)

\* The loops over the process table and over the queue are evaluated in two
\* halves, the second starting from the result of the first, so that the depth
\* of evaluation grows with the logarithm of the number of iterations.

\* b, evaluated once a has been evaluated (sequencing of two loop halves)
After(a, b) == IF a = a THEN b ELSE b

\* the first of two scan results that is a position
FirstBreak(a, b) == IF a # -1 THEN a ELSE b

\* the scan loop of enqueue_priority, iterations lo .. hi - 1 (iteration k
\* looks at the entry k places after q.front): the position at which the
\* loop breaks, or -1 when it reaches iteration hi without a break
RECURSIVE ScanPosition(_, _, _, _, _, _)
ScanPosition(q, lo, hi, new_time, new_priority, procs) ==
    IF lo >= hi
    THEN -1
    ELSE IF hi = lo + 1
    THEN LET cur == (q.front + lo) % MAX_PROCESSES
             e   == procs[Slot(q.process_indices, cur)]
         IN  IF GoesBefore(new_time, new_priority, e.remaining_time, e.priority)
             THEN cur
             ELSE -1
    ELSE LET mid == (lo + hi) \div 2
         IN  FirstBreak(ScanPosition(q, lo, mid, new_time, new_priority, procs),
                        ScanPosition(q, mid, hi, new_time, new_priority, procs))

\* one turn of the shifting loop at position cur: s = [arr, temp]
ShiftOne(s, cur) ==
    LET nextcur == (cur + 1) % MAX_PROCESSES
    IN  [arr  |-> WriteSlot(s.arr, nextcur, s.temp),
         temp |-> Slot(s.arr, nextcur)]

\* the shifting loop: while (cur != q->rear) { ... }, turns lo .. hi - 1
\* (turn k is at the position k places after the insertion position cur)
RECURSIVE ShiftRight(_, _, _, _)
ShiftRight(s, cur, lo, hi) ==
    IF lo >= hi
    THEN s
    ELSE IF hi = lo + 1
    THEN ShiftOne(s, (cur + lo) % MAX_PROCESSES)
    ELSE LET mid == (lo + hi) \div 2
             left == ShiftRight(s, cur, lo, mid)
         IN  After(left, ShiftRight(left, cur, mid, hi))

enqueue_priority(st, process_idx, procs) ==
    IF st.q.size >= MAX_PROCESSES
    THEN [st EXCEPT !.errs = @ + 1]
    ELSE IF st.q.rear = -1
    THEN enqueue(st, process_idx)
    ELSE LET q    == st.q
             stop == (q.rear + 1) % MAX_PROCESSES
             \* cur runs from q.front until it meets stop
             brk  == ScanPosition(q, 0, (stop - q.front) % MAX_PROCESSES,
                                  procs[process_idx].remaining_time,
                                  procs[process_idx].priority, procs)
             cur  == IF brk = -1 THEN stop ELSE brk
         IN  IF cur = stop
             THEN enqueue(st, process_idx)
             ELSE LET rear == (q.rear + 1) % MAX_PROCESSES
                      temp == Slot(q.process_indices, cur)
                      arr  == WriteSlot(q.process_indices, cur, process_idx)
                  IN  [st EXCEPT !.q.rear = rear,
                                 !.q.process_indices =
                                     ShiftRight([arr |-> arr, temp |-> temp],
                                                cur, 0,
                                                (rear - cur) % MAX_PROCESSES).arr,
                                 !.q.size = @ + 1]

\* dequeue that reads the front entry and leaves it in the queue
dequeue_peek(q) ==
    IF q.size <= 0
    THEN [idx |-> -1, q |-> q]
    ELSE [idx |-> Slot(q.process_indices, q.front), q |-> q]

\* dequeue returns [idx |-> the index or -1, q |-> the queue afterwards]
dequeue(q) ==
    IF q.size <= 0
    THEN [idx |-> -1, q |-> q]
    ELSE [idx |-> Slot(q.process_indices, q.front),
          q   |-> [q EXCEPT !.front = (q.front + 1) % MAX_PROCESSES,
                            !.size = @ - 1]]

\* the entries of a queue from front to rear (what print_queue walks)
QueueContents(q) ==
    [k \in 1..q.size |->
        Slot(q.process_indices, (q.front + k - 1) % MAX_PROCESSES)]

(***************************** process loading *****************************)

\* a Process as load_processes fills it in
NewProcess(pid, arrival, burst, priority) ==
    [pid |-> pid, arrival_time |-> arrival, burst_time |-> burst,
     priority |-> priority, remaining_time |-> burst, state |-> WAITING,
     start_time |-> -1, finish_time |-> -1, waiting_time |-> 0,
     quantum_used |-> 0, response_time |-> -1]

\* the table of a file whose valid lines are recs (<<pid, arrival, burst, priority>>)
load_processes(recs) ==
    [i \in 0..(Len(recs) - 1) |->
        NewProcess(recs[i + 1][1], recs[i + 1][2], recs[i + 1][3], recs[i + 1][4])]

(***************************** workloads ***********************************)

Lines == ArrivalTimes \X BurstTimes \X Priorities

\* every file of at most MaxProcs lines, the i-th line with pid i
GenericFiles ==
    UNION {{[i \in 1..n |-> <<i, f[i][1], f[i][2], f[i][3]>>] :
               f \in [1..n -> Lines]} : n \in 1..MaxProcs}

FCFSExample == << <<1, 0, 5, 0>>, <<2, 0, 3, 0>> >>
RRExample   == << <<1, 0, 4, 0>>, <<2, 0, 4, 0>> >>
SRTFExample == << <<1, 0, 8, 0>>, <<2, 1, 4, 0>> >>
\* one process whose burst outlasts the iteration limit of simulate
LongExample == << <<1, 0, BRUH_LIMIT + 2, 0>> >>
\* three processes arriving together, for the ordered queue
SJFExamples ==
    {<< <<1, 0, 2, 0>>, <<2, 0, b, p>>, <<3, 0, b, r>> >> :
        <<b, p, r>> \in (1..2) \X (0..1) \X (0..1)}

Files == GenericFiles \cup {FCFSExample, RRExample, SRTFExample, LongExample}
             \cup SJFExamples

\* more processes arriving at tick 0 than the arrival buffer holds
OverflowArrivals == [i \in 1..(MAX_PROCESSES + 1) |-> <<i, 0, 1, 0>>]
\* a full arrival buffer at tick 0 and, at tick 1, more arrivals than the
\* ready queue has room for after the dispatch of tick 0
OverflowQueue ==
    [i \in 1..(MAX_PROCESSES + MaxCpus + 1) |->
        <<i, IF i <= MAX_PROCESSES THEN 0 ELSE 1, 1, 0>>]

OverflowFiles == {OverflowArrivals, OverflowQueue}

\* a ready queue that fills up to the end of its buffer at tick 0 and then
\* takes insertions at the front, in the middle and at the back, so that the
\* entries run round the end of the buffer
WrapExample ==
    [i \in 1..(MAX_PROCESSES + 2) |->
        IF i <= MAX_PROCESSES - 1 THEN <<i, 0, 2, 0>>
        ELSE IF i = MAX_PROCESSES THEN <<i, 1, 1, 0>>
        ELSE IF i = MAX_PROCESSES + 1 THEN <<i, 1, 2, 1>>
        ELSE <<i, 3, 2, 0>>]

SjfQueueFiles == {WrapExample} \cup SJFExamples

\* one arrival more than the arrival buffer holds at tick 0 and one arrival
\* at tick 1, on enough CPUs to drain the ready queue before the loop ends
ManyCpus == 25

LateArrivalExample ==
    [i \in 1..(MAX_PROCESSES + 2) |->
        <<i, IF i <= MAX_PROCESSES + 1 THEN 0 ELSE 1, 1, 0>>]

\* inputs of one call of assign_processes_to_idle_cpus: the size of the
\* process table and the kinds of entry a table can hold at the call
DispatchProcs == 3

DispatchKinds == {"ready", "requeued", "completed", "future", "running"}

\* the process of kind k at index i when the call is made at time t
DispatchProcess(k, i, t) ==
    LET p == NewProcess(i + 1, IF k = "future" THEN t + 1 ELSE 0, 2, 0)
    IN  IF k = "ready" THEN [p EXCEPT !.state = READY]
        ELSE IF k = "requeued"
        THEN [p EXCEPT !.state = READY, !.start_time = 0,
                       !.response_time = 0, !.remaining_time = 1]
        ELSE IF k = "completed"
        THEN [p EXCEPT !.state = COMPLETED, !.start_time = 0,
                       !.response_time = 0, !.remaining_time = 0,
                       !.finish_time = t]
        ELSE IF k = "running"
        THEN [p EXCEPT !.state = RUNNING, !.start_time = 0,
                       !.response_time = 0, !.remaining_time = 1]
        ELSE p

\* the sequences without repetition over the set S
Orderings(S) ==
    {o \in UNION {[1..n -> S] : n \in 0..Cardinality(S)} :
        \A a, b \in DOMAIN o : a # b => o[a] # o[b]}

\* the queue after enqueue of the entries of o, first to last
RECURSIVE QueueOf(_)
QueueOf(o) ==
    IF o = << >>
    THEN init_queue
    ELSE enqueue([q |-> QueueOf(SubSeq(o, 1, Len(o) - 1)), errs |-> 0],
                 o[Len(o)]).q

Algorithms == {FCFS, RR, SRTF, SJF}

(***************************** simulation components ***********************)

\* handle_arrivals, first loop, process i: s = [processes, arrived_indices]
MarkOne(s, i, t) ==
    IF s.processes[i].arrival_time = t
          /\ Len(s.arrived_indices) < MAX_PROCESSES
    THEN [processes |-> [s.processes EXCEPT ![i].state = READY,
                                            ![i].quantum_used = 0],
          arrived_indices |-> Append(s.arrived_indices, i)]
    ELSE s

\* handle_arrivals, first loop, for i = lo .. hi - 1: mark and record the
\* processes arriving now
RECURSIVE MarkArrivals(_, _, _, _)
MarkArrivals(s, lo, hi, t) ==
    IF lo >= hi
    THEN s
    ELSE IF hi = lo + 1
    THEN MarkOne(s, lo, t)
    ELSE LET mid == (lo + hi) \div 2
             left == MarkArrivals(s, lo, mid, t)
         IN  After(left, MarkArrivals(left, mid, hi, t))

\* ArrivalEnqueue with the ordered insertion used for FCFS too
ArrivalEnqueue_ordered(st, idx, alg, procs) ==
    IF alg = FCFS \/ alg = SJF THEN enqueue_priority(st, idx, procs) ELSE st

\* handle_arrivals, second loop: what each algorithm does with an arrival
ArrivalEnqueue(st, idx, alg, procs) ==
    IF alg = FCFS THEN enqueue(st, idx)
    ELSE IF alg = SRTF THEN st
    ELSE IF alg = SJF THEN enqueue_priority(st, idx, procs)
    ELSE st

\* handle_arrivals, second loop, for the arrivals lo .. hi - 1
RECURSIVE EnqueueArrivals(_, _, _, _, _, _)
EnqueueArrivals(st, lo, hi, arrived, alg, procs) ==
    IF lo >= hi
    THEN st
    ELSE IF hi = lo + 1
    THEN ArrivalEnqueue(st, arrived[lo], alg, procs)
    ELSE LET mid == (lo + hi) \div 2
             left == EnqueueArrivals(st, lo, mid, arrived, alg, procs)
         IN  After(left, EnqueueArrivals(left, mid, hi, arrived, alg, procs))

\* simulate's loop for RR: enqueue(&FCFSQ, arrived_indices[i]), for the
\* arrivals lo .. hi - 1
RECURSIVE EnqueueAll(_, _, _, _)
EnqueueAll(st, lo, hi, arrived) ==
    IF lo >= hi
    THEN st
    ELSE IF hi = lo + 1
    THEN enqueue(st, arrived[lo])
    ELSE LET mid == (lo + hi) \div 2
             left == EnqueueAll(st, lo, mid, arrived)
         IN  After(left, EnqueueAll(left, mid, hi, arrived))

\* ExpireOne that requeues the process without making it Ready
ExpireOne_running(s, i, quantum) ==
    LET p == s.cpus[i].current_process
    IN  IF p = NULL THEN s
        ELSE IF s.processes[p].remaining_time > 0
                /\ s.processes[p].state = RUNNING
                /\ s.processes[p].quantum_used >= quantum
        THEN [processes |-> [s.processes EXCEPT ![p].quantum_used = 0],
              cpus      |-> [s.cpus EXCEPT ![i].current_process = NULL],
              st        |-> enqueue(s.st, p)]
        ELSE s

\* ExpireOne that lets a process run one tick beyond its quantum
ExpireOne_late(s, i, quantum) ==
    LET p == s.cpus[i].current_process
    IN  IF p = NULL THEN s
        ELSE IF s.processes[p].remaining_time > 0
                /\ s.processes[p].state = RUNNING
                /\ s.processes[p].quantum_used > quantum
        THEN [processes |-> [s.processes EXCEPT ![p].quantum_used = 0,
                                                ![p].state = READY],
              cpus      |-> [s.cpus EXCEPT ![i].current_process = NULL],
              st        |-> enqueue(s.st, p)]
        ELSE s

\* handle_rr_quantum_expiry: s = [processes, cpus, st]
ExpireOne(s, i, quantum) ==
    LET p == s.cpus[i].current_process
    IN  IF p = NULL THEN s
        ELSE IF s.processes[p].remaining_time > 0
                /\ s.processes[p].state = RUNNING
                /\ s.processes[p].quantum_used >= quantum
        THEN [processes |-> [s.processes EXCEPT ![p].quantum_used = 0,
                                                ![p].state = READY],
              cpus      |-> [s.cpus EXCEPT ![i].current_process = NULL],
              st        |-> enqueue(s.st, p)]
        ELSE s

RECURSIVE handle_rr_quantum_expiry(_, _, _)
handle_rr_quantum_expiry(s, i, quantum) ==
    IF i >= Cardinality(DOMAIN s.cpus)
    THEN s
    ELSE handle_rr_quantum_expiry(ExpireOne(s, i, quantum), i + 1, quantum)

\* handle_srtf_preemption: the body holds no preemption logic
handle_srtf_preemption(s) == s

\* Dispatch that records start_time and response_time at every dispatch
Dispatch_always(s, c, idx, t) ==
    LET p == s.processes[idx]
        started == [p EXCEPT !.start_time = t,
                             !.response_time = t - p.arrival_time]
    IN  [s EXCEPT !.cpus[c].current_process = idx,
                  !.processes[idx] = [started EXCEPT !.state = RUNNING,
                                                     !.quantum_used = 0]]

\* assign_processes_to_idle_cpus, one dispatch: p goes to CPU c at time t
Dispatch(s, c, idx, t) ==
    LET p == s.processes[idx]
        started == [p EXCEPT !.start_time = t,
                             !.response_time = t - p.arrival_time]
        q == IF p.start_time = -1 THEN started ELSE p
    IN  [s EXCEPT !.cpus[c].current_process = idx,
                  !.processes[idx] = [q EXCEPT !.state = RUNNING,
                                               !.quantum_used = 0]]

\* assign_processes_to_idle_cpus that gives a busy CPU to the front of the
\* queue as well, putting its process off
RECURSIVE assign_preempting(_, _, _)
assign_preempting(s, c, t) ==
    IF c >= Cardinality(DOMAIN s.cpus)
    THEN s
    ELSE LET d == dequeue(s.q)
         IN  IF d.idx = -1
             THEN s
             ELSE IF s.processes[d.idx].state = COMPLETED
                     \/ s.processes[d.idx].arrival_time > t
             THEN assign_preempting([s EXCEPT !.q = d.q], c, t)
             ELSE assign_preempting(
                      Dispatch([s EXCEPT !.q = d.q], c, d.idx, t), c + 1, t)

\* assign_processes_to_idle_cpus that moves on to the next CPU after
\* discarding an entry
RECURSIVE assign_skipping(_, _, _)
assign_skipping(s, c, t) ==
    IF c >= Cardinality(DOMAIN s.cpus)
    THEN s
    ELSE IF s.cpus[c].current_process # NULL
    THEN assign_skipping(s, c + 1, t)
    ELSE LET d == dequeue(s.q)
         IN  IF d.idx = -1
             THEN s
             ELSE IF s.processes[d.idx].state = COMPLETED
                     \/ s.processes[d.idx].arrival_time > t
             THEN assign_skipping([s EXCEPT !.q = d.q], c + 1, t)
             ELSE assign_skipping(
                      Dispatch([s EXCEPT !.q = d.q], c, d.idx, t), c + 1, t)

\* s = [processes, cpus, q]
RECURSIVE assign_processes_to_idle_cpus(_, _, _)
assign_processes_to_idle_cpus(s, c, t) ==
    IF c >= Cardinality(DOMAIN s.cpus)
    THEN s
    ELSE IF s.cpus[c].current_process # NULL
    THEN assign_processes_to_idle_cpus(s, c + 1, t)
    ELSE LET d == dequeue(s.q)
         IN  IF d.idx = -1
             THEN s
             ELSE IF s.processes[d.idx].state = COMPLETED
                     \/ s.processes[d.idx].arrival_time > t
             THEN assign_processes_to_idle_cpus([s EXCEPT !.q = d.q], c, t)
             ELSE assign_processes_to_idle_cpus(
                      Dispatch([s EXCEPT !.q = d.q], c, d.idx, t), c + 1, t)

\* a timeline row that records the index of the process in the table
\* instead of its pid
TimelineRow_index(procs, cs) ==
    [c \in DOMAIN cs |-> cs[c].current_process]

\* the timeline row simulate writes at current_time
TimelineRow(procs, cs) ==
    [c \in DOMAIN cs |->
        IF cs[c].current_process # NULL
        THEN procs[cs[c].current_process].pid
        ELSE -1]

\* update_waiting_times
update_waiting_times(procs, t) ==
    [w \in DOMAIN procs |->
        IF procs[w].state = WAITING /\ procs[w].arrival_time <= t
        THEN [procs[w] EXCEPT !.waiting_time = @ + 1]
        ELSE procs[w]]

\* ExecuteOne that retires a process only once remaining_time is below 0
ExecuteOne_late(s, c, t) ==
    LET idx == s.cpus[c].current_process
    IN  IF idx # NULL
        THEN LET p == [s.processes[idx] EXCEPT !.remaining_time = @ - 1,
                                               !.quantum_used = @ + 1]
             IN  IF p.remaining_time < 0
                 THEN [processes |-> [s.processes EXCEPT ![idx] =
                                         [p EXCEPT !.finish_time = t + 1,
                                                   !.state = COMPLETED]],
                       cpus |-> [s.cpus EXCEPT ![c].busy_time = @ + 1,
                                               ![c].current_process = NULL],
                       completed_count |-> s.completed_count + 1]
                 ELSE [s EXCEPT !.processes[idx] = p,
                                !.cpus[c].busy_time = @ + 1]
        ELSE [s EXCEPT !.cpus[c].idle_time = @ + 1]

\* ExecuteOne that stamps a completing process with the current tick
ExecuteOne_finish_now(s, c, t) ==
    LET idx == s.cpus[c].current_process
    IN  IF idx # NULL
        THEN LET p == [s.processes[idx] EXCEPT !.remaining_time = @ - 1,
                                               !.quantum_used = @ + 1]
             IN  IF p.remaining_time <= 0
                 THEN [processes |-> [s.processes EXCEPT ![idx] =
                                         [p EXCEPT !.finish_time = t,
                                                   !.state = COMPLETED]],
                       cpus |-> [s.cpus EXCEPT ![c].busy_time = @ + 1,
                                               ![c].current_process = NULL],
                       completed_count |-> s.completed_count + 1]
                 ELSE [s EXCEPT !.processes[idx] = p,
                                !.cpus[c].busy_time = @ + 1]
        ELSE [s EXCEPT !.cpus[c].idle_time = @ + 1]

\* ExecuteOne that leaves a completing process on its CPU
ExecuteOne_nofree(s, c, t) ==
    LET idx == s.cpus[c].current_process
    IN  IF idx # NULL
        THEN LET p == [s.processes[idx] EXCEPT !.remaining_time = @ - 1,
                                               !.quantum_used = @ + 1]
             IN  IF p.remaining_time <= 0
                 THEN [processes |-> [s.processes EXCEPT ![idx] =
                                         [p EXCEPT !.finish_time = t + 1,
                                                   !.state = COMPLETED]],
                       cpus |-> [s.cpus EXCEPT ![c].busy_time = @ + 1],
                       completed_count |-> s.completed_count + 1]
                 ELSE [s EXCEPT !.processes[idx] = p,
                                !.cpus[c].busy_time = @ + 1]
        ELSE [s EXCEPT !.cpus[c].idle_time = @ + 1]

\* ExecuteOne that counts nothing for a CPU without a process
ExecuteOne_noidle(s, c, t) ==
    LET idx == s.cpus[c].current_process
    IN  IF idx # NULL
        THEN LET p == [s.processes[idx] EXCEPT !.remaining_time = @ - 1,
                                               !.quantum_used = @ + 1]
             IN  IF p.remaining_time <= 0
                 THEN [processes |-> [s.processes EXCEPT ![idx] =
                                         [p EXCEPT !.finish_time = t + 1,
                                                   !.state = COMPLETED]],
                       cpus |-> [s.cpus EXCEPT ![c].busy_time = @ + 1,
                                               ![c].current_process = NULL],
                       completed_count |-> s.completed_count + 1]
                 ELSE [s EXCEPT !.processes[idx] = p,
                                !.cpus[c].busy_time = @ + 1]
        ELSE s

\* execute_processes, one CPU: s = [processes, cpus, completed_count]
ExecuteOne(s, c, t) ==
    LET idx == s.cpus[c].current_process
    IN  IF idx # NULL
        THEN LET p == [s.processes[idx] EXCEPT !.remaining_time = @ - 1,
                                               !.quantum_used = @ + 1]
             IN  IF p.remaining_time <= 0
                 THEN [processes |-> [s.processes EXCEPT ![idx] =
                                         [p EXCEPT !.finish_time = t + 1,
                                                   !.state = COMPLETED]],
                       cpus |-> [s.cpus EXCEPT ![c].busy_time = @ + 1,
                                               ![c].current_process = NULL],
                       completed_count |-> s.completed_count + 1]
                 ELSE [s EXCEPT !.processes[idx] = p,
                                !.cpus[c].busy_time = @ + 1]
        ELSE [s EXCEPT !.cpus[c].idle_time = @ + 1]

RECURSIVE execute_processes(_, _, _)
execute_processes(s, c, t) ==
    IF c >= Cardinality(DOMAIN s.cpus)
    THEN s
    ELSE execute_processes(ExecuteOne(s, c, t), c + 1, t)

\* the two breaks at the end of an iteration of simulate's loop
SafetyBreak(t, capacity, completed, count) ==
    t > capacity * SAFETY_FACTOR /\ completed < count

BruhBreak(b) == b > BRUH_LIMIT

\* the loop condition: while (completed_count < process_count)
LoopCondition(completed, count) == completed < count

\* ExitKind without the two breaks: only the loop condition ends the loop
ExitKind_nobreaks(t, capacity, completed, count, b) ==
    IF LoopCondition(completed, count) THEN "none" ELSE "completed"

\* how an iteration ends, with t the incremented current_time and b the
\* iteration counter before its increment: "none" means the loop goes on
ExitKind(t, capacity, completed, count, b) ==
    IF SafetyBreak(t, capacity, completed, count) THEN "safety_break"
    ELSE IF BruhBreak(b + 1) THEN "bruh_break"
    ELSE IF LoopCondition(completed, count) THEN "none"
    ELSE "completed"

\* print_process_stats: the row of one process
ProcessStats(p) ==
    IF p.finish_time # -1
    THEN LET turnaround == p.finish_time - p.arrival_time
             waiting == turnaround - p.burst_time
         IN  [available |-> TRUE, turnaround |-> turnaround,
              waiting |-> IF waiting < 0 THEN 0 ELSE waiting,
              response |-> p.response_time]
    ELSE [available |-> FALSE, turnaround |-> -1, waiting |-> -1,
          response |-> -1]

(***************************** the state machine ***************************)

\* main: init_queue, parse_arguments, load_processes; then simulate up to its
\* loop, for a process file drawn from files
InitWith(files, counts) ==
    /\ algorithm \in Algorithms
    /\ cpu_count \in counts
    /\ time_quantum \in (IF algorithm = RR THEN 1..MaxQuantum
                         ELSE {DEFAULT_TIME_QUANTUM})
    /\ \E f \in files :
          /\ processes = load_processes(f)
          /\ process_count = Len(f)
    /\ cpus = [c \in 0..(cpu_count - 1) |->
                 [id |-> c, current_process |-> NULL,
                  idle_time |-> 0, busy_time |-> 0]]
    /\ FCFSQ = init_queue
    /\ arrived_indices = << >>
    /\ timeline = [t \in {} |-> << >>]
    /\ timeline_capacity = INITIAL_TIMELINE_CAPACITY
    /\ current_time = 0
    /\ completed_count = 0
    /\ bruh = 0
    /\ overflow_errors = 0
    /\ warned = FALSE
    /\ loop_exit = "none"
    /\ report = << >>
    /\ pc = "arrivals"

InitFor(files) == InitWith(files, 1..MaxCpus)

Init == InitFor(Files)

\* handle_arrivals(processes, process_count, current_time, algorithm, ...)
HandleArrivals ==
    /\ pc = "arrivals"
    /\ current_time < TickCap
    /\ LET m  == MarkArrivals([processes |-> processes,
                                arrived_indices |-> << >>],
                               0, process_count, current_time)
           st == EnqueueArrivals([q |-> FCFSQ, errs |-> overflow_errors],
                                 1, Len(m.arrived_indices) + 1,
                                 m.arrived_indices, algorithm, m.processes)
       IN  /\ processes' = m.processes
           /\ arrived_indices' = m.arrived_indices
           /\ FCFSQ' = st.q
           /\ overflow_errors' = st.errs
    /\ pc' = IF algorithm = RR THEN "rr"
             ELSE IF algorithm = SRTF THEN "srtf" ELSE "assign"
    /\ UNCHANGED <<algorithm, cpu_count, time_quantum, process_count, cpus,
                   timeline, timeline_capacity, current_time, completed_count,
                   bruh, warned, loop_exit, report>>

\* the Round Robin step with the quantum expiry handled before the arrivals
\* of the tick are enqueued
RoundRobinStep_expiry_first ==
    /\ pc = "rr"
    /\ LET s0 == handle_rr_quantum_expiry(
                     [processes |-> processes, cpus |-> cpus,
                      st |-> [q |-> FCFSQ, errs |-> overflow_errors]],
                     0, time_quantum)
           st == EnqueueAll(s0.st, 1, Len(arrived_indices) + 1,
                            arrived_indices)
       IN  /\ processes' = s0.processes
           /\ cpus' = s0.cpus
           /\ FCFSQ' = st.q
           /\ overflow_errors' = st.errs
    /\ pc' = "assign"
    /\ UNCHANGED <<algorithm, cpu_count, time_quantum, process_count,
                   arrived_indices, timeline, timeline_capacity, current_time,
                   completed_count, bruh, warned, loop_exit, report>>

\* if (algorithm == RR) { enqueue the arrivals; handle_rr_quantum_expiry(...) }
RoundRobinStep ==
    /\ pc = "rr"
    /\ LET st == EnqueueAll([q |-> FCFSQ, errs |-> overflow_errors],
                            1, Len(arrived_indices) + 1, arrived_indices)
           s  == handle_rr_quantum_expiry(
                     [processes |-> processes, cpus |-> cpus, st |-> st],
                     0, time_quantum)
       IN  /\ processes' = s.processes
           /\ cpus' = s.cpus
           /\ FCFSQ' = s.st.q
           /\ overflow_errors' = s.st.errs
    /\ pc' = "assign"
    /\ UNCHANGED <<algorithm, cpu_count, time_quantum, process_count,
                   arrived_indices, timeline, timeline_capacity, current_time,
                   completed_count, bruh, warned, loop_exit, report>>

\* if (algorithm == SRTF) handle_srtf_preemption(...)
SrtfStep ==
    /\ pc = "srtf"
    /\ LET s == handle_srtf_preemption(
                    [processes |-> processes, cpus |-> cpus, q |-> FCFSQ])
       IN  /\ processes' = s.processes
           /\ cpus' = s.cpus
           /\ FCFSQ' = s.q
    /\ pc' = "assign"
    /\ UNCHANGED <<algorithm, cpu_count, time_quantum, process_count,
                   arrived_indices, timeline, timeline_capacity, current_time,
                   completed_count, bruh, overflow_errors, warned, loop_exit,
                   report>>

\* assign_processes_to_idle_cpus(...)
AssignStep ==
    /\ pc = "assign"
    /\ LET s == assign_processes_to_idle_cpus(
                    [processes |-> processes, cpus |-> cpus, q |-> FCFSQ],
                    0, current_time)
       IN  /\ processes' = s.processes
           /\ cpus' = s.cpus
           /\ FCFSQ' = s.q
    /\ pc' = "timeline"
    /\ UNCHANGED <<algorithm, cpu_count, time_quantum, process_count,
                   arrived_indices, timeline, timeline_capacity, current_time,
                   completed_count, bruh, overflow_errors, warned, loop_exit,
                   report>>

\* the timeline update of simulate: expand if needed, write the row
TimelineStep ==
    /\ pc = "timeline"
    /\ timeline_capacity' = IF current_time >= timeline_capacity
                            THEN timeline_capacity * 2
                            ELSE timeline_capacity
    /\ timeline' = [t \in (DOMAIN timeline) \cup {current_time} |->
                       IF t = current_time
                       THEN TimelineRow(processes, cpus)
                       ELSE timeline[t]]
    /\ pc' = "waiting"
    /\ UNCHANGED <<algorithm, cpu_count, time_quantum, process_count, processes,
                   cpus, FCFSQ, arrived_indices, current_time, completed_count,
                   bruh, overflow_errors, warned, loop_exit, report>>

\* update_waiting_times(processes, process_count, current_time)
WaitingStep ==
    /\ pc = "waiting"
    /\ processes' = update_waiting_times(processes, current_time)
    /\ pc' = "execute"
    /\ UNCHANGED <<algorithm, cpu_count, time_quantum, process_count, cpus,
                   FCFSQ, arrived_indices, timeline, timeline_capacity,
                   current_time, completed_count, bruh, overflow_errors, warned,
                   loop_exit, report>>

\* execute_processes(..., current_time, &completed_count)
ExecuteStep ==
    /\ pc = "execute"
    /\ LET s == execute_processes(
                    [processes |-> processes, cpus |-> cpus,
                     completed_count |-> completed_count], 0, current_time)
       IN  /\ processes' = s.processes
           /\ cpus' = s.cpus
           /\ completed_count' = s.completed_count
    /\ pc' = "advance"
    /\ UNCHANGED <<algorithm, cpu_count, time_quantum, process_count, FCFSQ,
                   arrived_indices, timeline, timeline_capacity, current_time,
                   bruh, overflow_errors, warned, loop_exit, report>>

\* current_time++, the two breaks, and the loop condition
AdvanceStep ==
    /\ pc = "advance"
    /\ current_time' = current_time + 1
    /\ LET e == ExitKind(current_time + 1, timeline_capacity,
                         completed_count, process_count, bruh)
       IN  /\ loop_exit' = e
           /\ warned' = (warned \/ e = "safety_break")
           /\ bruh' = IF e = "safety_break" THEN bruh ELSE bruh + 1
           /\ pc' = IF e = "none" THEN "arrivals" ELSE "results"
    /\ UNCHANGED <<algorithm, cpu_count, time_quantum, process_count, processes,
                   cpus, FCFSQ, arrived_indices, timeline, timeline_capacity,
                   completed_count, overflow_errors, report>>

\* print_results(...): the process statistics
PrintResults ==
    /\ pc = "results"
    /\ report' = [i \in DOMAIN processes |-> ProcessStats(processes[i])]
    /\ pc' = "done"
    /\ UNCHANGED <<algorithm, cpu_count, time_quantum, process_count, processes,
                   cpus, FCFSQ, arrived_indices, timeline, timeline_capacity,
                   current_time, completed_count, bruh, overflow_errors, warned,
                   loop_exit>>

Next ==
    \/ HandleArrivals
    \/ RoundRobinStep
    \/ SrtfStep
    \/ AssignStep
    \/ TimelineStep
    \/ WaitingStep
    \/ ExecuteStep
    \/ AdvanceStep
    \/ PrintResults

Spec == Init /\ [][Next]_vars

\* the runs on the process files that exceed the fixed capacities
OverflowInit == InitFor(OverflowFiles)

OverflowSpec == OverflowInit /\ [][Next]_vars

\* the runs on the process files that exercise the ordered queue
SjfQueueInit == InitFor(SjfQueueFiles)

SjfQueueSpec == SjfQueueInit /\ [][Next]_vars

\* one call of assign_processes_to_idle_cpus on a process table, CPUs and a
\* ready queue chosen freely: the queue may hold Completed and not yet
\* arrived entries, which the calls made by simulate never find in it
DispatchInit ==
    /\ algorithm = RR
    /\ cpu_count \in 1..MaxCpus
    /\ time_quantum = DEFAULT_TIME_QUANTUM
    /\ process_count = DispatchProcs
    /\ current_time = 1
    /\ \E kinds \in [0..(DispatchProcs - 1) -> DispatchKinds] :
          /\ processes = [i \in 0..(DispatchProcs - 1) |->
                             DispatchProcess(kinds[i], i, current_time)]
          /\ \E occ \in [0..(cpu_count - 1)
                            -> {NULL} \cup {i \in DOMAIN kinds :
                                               kinds[i] = "running"}] :
                /\ \A i \in DOMAIN kinds :
                       kinds[i] = "running" =>
                           Cardinality({c \in DOMAIN occ : occ[c] = i}) = 1
                /\ cpus = [c \in 0..(cpu_count - 1) |->
                              [id |-> c, current_process |-> occ[c],
                               idle_time |-> 0, busy_time |-> 0]]
          /\ \E o \in Orderings({i \in DOMAIN kinds : kinds[i] # "running"}) :
                FCFSQ = QueueOf(o)
    /\ arrived_indices = << >>
    /\ timeline = [t \in {} |-> << >>]
    /\ timeline_capacity = INITIAL_TIMELINE_CAPACITY
    /\ completed_count = 0
    /\ bruh = 0
    /\ overflow_errors = 0
    /\ warned = FALSE
    /\ loop_exit = "none"
    /\ report = << >>
    /\ pc = "assign"

DispatchNext == AssignStep

DispatchSpec == DispatchInit /\ [][DispatchNext]_vars

\* the program started with -c ManyCpus on the file LateArrivalExample
ManyCpuInit == InitWith({LateArrivalExample}, {ManyCpus})

ManyCpuSpec == ManyCpuInit /\ [][Next]_vars

(***************************** properties **********************************)

RECURSIVE SumTo(_, _)
SumTo(f, n) == IF n < 0 THEN 0 ELSE f[n] + SumTo(f, n - 1)

BusyTotal == SumTo([c \in DOMAIN cpus |-> cpus[c].busy_time], cpu_count - 1)

CompletedBurstTotal ==
    SumTo([i \in DOMAIN processes |->
              IF processes[i].state = COMPLETED THEN processes[i].burst_time
              ELSE 0], process_count - 1)

\* the run is the one of input file recs
IsFile(recs) ==
    /\ process_count = Len(recs)
    /\ \A i \in 1..Len(recs) :
          /\ processes[i - 1].pid = recs[i][1]
          /\ processes[i - 1].arrival_time = recs[i][2]
          /\ processes[i - 1].burst_time = recs[i][3]
          /\ processes[i - 1].priority = recs[i][4]

\* on one CPU, the timeline is exactly the pids of row, tick by tick
TimelineIs(row) ==
    /\ DOMAIN timeline = 0..(Len(row) - 1)
    /\ \A t \in DOMAIN timeline : timeline[t][0] = row[t + 1]

\* on one CPU, the timeline starts with the pids of row
TimelineStartsWith(row) ==
    /\ (0..(Len(row) - 1)) \subseteq DOMAIN timeline
    /\ \A t \in 0..(Len(row) - 1) : timeline[t][0] = row[t + 1]

LoopExited == loop_exit # "none"

AllCompleted ==
    \A i \in DOMAIN processes :
        processes[i].state = COMPLETED /\ processes[i].remaining_time = 0

\* C1: the main loop of simulate exits only when every process is Completed
\* with remaining_time 0 and completed_count equals process_count.
C1_ExitOnlyWhenAllCompleted ==
    LoopExited => (completed_count = process_count /\ AllCompleted)

\* C2: conservation: when a run ends, the busy_time of all CPUs adds up to the
\* burst_time of the Completed processes.
C2_Conservation ==
    pc = "done" => BusyTotal = CompletedBurstTotal

\* C3: no double assignment: a process is the current_process of at most one
\* CPU, and a process whose index is in the ready queue is on no CPU.
C3_NoDoubleAssignment ==
    /\ \A c1, c2 \in DOMAIN cpus :
          (c1 # c2 /\ cpus[c1].current_process # NULL)
              => cpus[c1].current_process # cpus[c2].current_process
    /\ \A k \in 1..FCFSQ.size : \A c \in DOMAIN cpus :
          cpus[c].current_process # QueueContents(FCFSQ)[k]

\* two CPUs run two processes while a third waits in the ready queue
C3_Witness ==
    /\ FCFSQ.size > 0
    /\ \E c1, c2 \in DOMAIN cpus :
          /\ c1 # c2
          /\ cpus[c1].current_process # NULL
          /\ cpus[c2].current_process # NULL

\* C4: SRTF preemption: on {(1,0,8), (2,1,4)}, 1 CPU, SRTF, pid 1 runs tick 0
\* only, pid 2 runs ticks 1..4 and finishes at 5, pid 1 resumes at tick 5 and
\* finishes at 12.
C4_SrtfPreemption ==
    (IsFile(SRTFExample) /\ algorithm = SRTF /\ cpu_count = 1 /\ pc = "done")
        => /\ TimelineIs(<<1, 2, 2, 2, 2, 1, 1, 1, 1, 1, 1, 1>>)
           /\ processes[1].finish_time = 5
           /\ processes[0].finish_time = 12

RRRun ==
    IsFile(RRExample) /\ algorithm = RR /\ cpu_count = 1 /\ time_quantum = 2

FCFSRun == IsFile(FCFSExample) /\ algorithm = FCFS /\ cpu_count = 1

\* C6: FCFS determinism: on {(1,0,5), (2,0,3)}, 1 CPU, FCFS, pid 1 has the CPU
\* at ticks 0..4 and pid 2 at ticks 5..7, and the waiting values reported are
\* 0 for pid 1 and 5 for pid 2.
C6_FcfsDeterminism ==
    (FCFSRun /\ pc = "done")
        => /\ TimelineIs(<<1, 1, 1, 1, 1, 2, 2, 2>>)
           /\ report[0].available /\ report[0].waiting = 0
           /\ report[1].available /\ report[1].waiting = 5

C6_Witness == FCFSRun /\ pc = "done" /\ loop_exit = "completed"

\* the CPU a process is on
CpuOf(i) == CHOOSE c \in DOMAIN cpus : cpus[c].current_process = i

\* a is dispatched before b: b has not started unless a has, no later than b,
\* and when one dispatch step starts both, a gets the CPU of lower id
DispatchedFirst(a, b) ==
    /\ processes[b].start_time # -1
          => /\ processes[a].start_time # -1
             /\ processes[a].start_time <= processes[b].start_time
    /\ (pc = "timeline" /\ processes[a].start_time = current_time
                        /\ processes[b].start_time = current_time)
          => CpuOf(a) < CpuOf(b)

\* two processes that arrive at the same tick with equal remaining_time
SjfTie(i, j) ==
    /\ i # j
    /\ processes[i].arrival_time = processes[j].arrival_time
    /\ processes[i].burst_time = processes[j].burst_time

ScalingRun ==
    /\ cpu_count = process_count
    /\ \A i \in DOMAIN processes :
          /\ processes[i].arrival_time = 0
          /\ processes[i].burst_time = processes[0].burst_time

\* C8: multi-CPU scaling: with cpu_count = N and N processes arriving at tick 0
\* with burst B, under each algorithm every process ends with finish_time B and
\* waiting_time 0.
C8_MultiCpuScaling ==
    (ScalingRun /\ pc = "done")
        => \A i \in DOMAIN processes :
              /\ processes[i].finish_time = processes[i].burst_time
              /\ processes[i].waiting_time = 0

\* C9: no silent truncation: when the loop has exited while some process is
\* not Completed, the abort warning was printed.
C9_NoSilentTruncation ==
    (LoopExited /\ \E i \in DOMAIN processes : processes[i].state # COMPLETED)
        => warned

\* the iterations simulate's counter still allows
RemainingIterations == BRUH_LIMIT + 1 - bruh

\* how far an iteration has got
PcRank(p) ==
    CASE p = "arrivals" -> 0
      [] p \in {"rr", "srtf"} -> 1
      [] p = "assign" -> 2
      [] p = "timeline" -> 3
      [] p = "waiting" -> 4
      [] p = "execute" -> 5
      [] p = "advance" -> 6
      [] OTHER -> 7

\* the guard of one of the loop's actions holds: the loop can take a step
LoopCanStep ==
    \/ pc = "arrivals" /\ current_time < TickCap
    \/ pc \in {"rr", "srtf", "assign", "timeline", "waiting", "execute",
               "advance"}

\* C10: the main loop of simulate exits after finitely many ticks, also in
\* runs in which some process can never complete: every step of the running
\* loop either uses up one of finitely many iterations or moves on within the
\* iteration, and leaves the loop able to step again unless it has exited.
C10_LoopExits ==
    [][~LoopExited =>
          /\ RemainingIterations' >= 0
          /\ \/ RemainingIterations' < RemainingIterations
             \/ /\ RemainingIterations' = RemainingIterations
                /\ PcRank(pc') > PcRank(pc)
          /\ ~LoopExited' => LoopCanStep']_vars

\* the loop has exited from a run in which no process ever got a CPU
C10_Witness ==
    /\ LoopExited
    /\ \A i \in DOMAIN processes : processes[i].start_time = -1

\* process i is in the ready queue / on a CPU
InQueue(i) == \E k \in 1..FCFSQ.size : QueueContents(FCFSQ)[k] = i

OnCpu(i) == \E c \in DOMAIN cpus : cpus[c].current_process = i

\* process i has arrived, is not Completed and is not running on a CPU
ReadyToRun(i) ==
    /\ processes[i].arrival_time <= current_time
    /\ processes[i].state # COMPLETED
    /\ ~OnCpu(i)

\* C11: waiting-time accrual: in the waiting step of every tick each process
\* that has arrived, is not Completed and is not on a CPU gains exactly 1
\* waiting_time and no other waiting_time changes; no other step changes one.
C11_WaitingAccrual ==
    [][\A i \in DOMAIN processes :
          processes'[i].waiting_time =
              processes[i].waiting_time
                  + (IF pc = "waiting" /\ ReadyToRun(i) THEN 1 ELSE 0)]_vars

\* C12: arrival admission: under each algorithm, when the dispatch step of a
\* tick starts, every process whose arrival_time is that tick is Ready and
\* its index is in the ready queue.
C12_ArrivalAdmission ==
    pc = "assign" =>
        \A i \in DOMAIN processes :
            processes[i].arrival_time = current_time
                => (processes[i].state = READY /\ InQueue(i))

\* C13: work conservation at dispatch: right after the dispatch step, under
\* each algorithm, no CPU is idle while some process has arrived, is not
\* Completed and is not running on any CPU.
C13_WorkConservation ==
    pc = "timeline" =>
        ~ /\ \E c \in DOMAIN cpus : cpus[c].current_process = NULL
          /\ \E i \in DOMAIN processes : ReadyToRun(i)

\* an enqueue found the ready queue full, or the processes arriving at the
\* tick just handled are more than the arrival buffer holds
Overflowed ==
    \/ overflow_errors > 0
    \/ /\ pc # "arrivals"
       /\ Cardinality({i \in DOMAIN processes :
                          processes[i].arrival_time = current_time})
              > MAX_PROCESSES

\* the loop goes on to dispatch and execute
RunContinues ==
    /\ loop_exit = "none"
    /\ pc \in {"assign", "timeline", "waiting", "execute", "advance"}

\* process i has arrived and is neither queued, nor on a CPU, nor Completed
Lost(i) ==
    /\ processes[i].arrival_time <= current_time
    /\ processes[i].state # COMPLETED
    /\ ~InQueue(i)
    /\ ~OnCpu(i)

\* C14: fixed-capacity overflow is never silent data loss: once an enqueue
\* has found the ready queue full, or more processes have arrived in one tick
\* than the arrival buffer holds, the run does not go on with an arrived
\* process that is neither in the ready queue, nor on a CPU, nor Completed.
C14_NoSilentOverflow ==
    (Overflowed /\ RunContinues /\ algorithm # SRTF)
        => \A i \in DOMAIN processes : ~Lost(i)

\* C15: ready-queue membership: in every reachable state, under every
\* algorithm, the ready queue holds no process index more than once and holds
\* no process whose state is Running or Completed.
C15_QueueMembership ==
    LET c == QueueContents(FCFSQ)
    IN  /\ \A k, l \in 1..FCFSQ.size : k # l => c[k] # c[l]
        /\ \A k \in 1..FCFSQ.size :
               /\ c[k] \in DOMAIN processes
               /\ processes[c[k]].state # RUNNING
               /\ processes[c[k]].state # COMPLETED

\* an RR queue of two or more entries, one of them requeued after its quantum
\* expired, while another process is Running
C15_Witness ==
    /\ algorithm = RR
    /\ FCFSQ.size >= 2
    /\ \E i \in DOMAIN processes : InQueue(i) /\ processes[i].start_time # -1
    /\ \E j \in DOMAIN processes : processes[j].state = RUNNING

\* C16: process lifecycle: remaining_time is burst_time until the first
\* dispatch, goes down by exactly 1 in each tick's execution step in which the
\* process is on a CPU and is unchanged by every other step, and never goes
\* below 0; once a process is Completed its state, remaining_time and
\* finish_time never change again.
C16_Lifecycle ==
    [][\A i \in DOMAIN processes :
          /\ processes[i].start_time = -1
                 => processes[i].remaining_time = processes[i].burst_time
          /\ processes'[i].remaining_time =
                 processes[i].remaining_time
                     - (IF pc = "execute" /\ OnCpu(i) THEN 1 ELSE 0)
          /\ processes'[i].remaining_time >= 0
          /\ processes[i].state = COMPLETED
                 => /\ processes'[i].state = COMPLETED
                    /\ processes'[i].remaining_time = processes[i].remaining_time
                    /\ processes'[i].finish_time = processes[i].finish_time]_vars

\* one process is Completed while another has run part of its burst
C16_Witness ==
    /\ \E i \in DOMAIN processes : processes[i].state = COMPLETED
    /\ \E j \in DOMAIN processes :
           /\ 0 < processes[j].remaining_time
           /\ processes[j].remaining_time < processes[j].burst_time

\* process i is on a CPU with its quantum used up and work left
Expired(i) ==
    /\ OnCpu(i)
    /\ processes[i].quantum_used >= time_quantum
    /\ processes[i].remaining_time > 0

C18_FirstDispatch ==
    [][\A i \in DOMAIN processes :
          /\ processes[i].start_time = -1 <=> processes[i].response_time = -1
          /\ processes[i].start_time # -1
                 => /\ processes'[i].start_time = processes[i].start_time
                    /\ processes'[i].response_time = processes[i].response_time
          /\ (processes[i].start_time = -1 /\ processes'[i].start_time # -1)
                 => /\ pc = "assign"
                    /\ \E c \in DOMAIN cpus : cpus'[c].current_process = i
                    /\ processes'[i].start_time = current_time
                    /\ processes'[i].response_time
                           = current_time - processes[i].arrival_time
          /\ (~OnCpu(i) /\ \E c \in DOMAIN cpus : cpus'[c].current_process = i)
                 => /\ pc = "assign"
                    /\ processes'[i].start_time # -1
                    /\ processes'[i].quantum_used = 0]_vars

\* a process has just been redispatched: it is on a CPU after the dispatch
\* step with quantum_used 0, and it started at an earlier tick
C18_Witness ==
    /\ pc = "timeline"
    /\ \E i \in DOMAIN processes :
           /\ OnCpu(i)
           /\ processes[i].quantum_used = 0
           /\ processes[i].start_time # -1
           /\ processes[i].start_time < current_time
           /\ processes[i].response_time
                  = processes[i].start_time - processes[i].arrival_time

\* C19: completion step: in the execution step in which the remaining_time of
\* a process on a CPU reaches 0 the process becomes Completed, its
\* finish_time is current_time + 1, its CPU is free when the step ends, and
\* completed_count goes up by 1 for each such process; no other step makes a
\* process Completed or changes completed_count; and in every state
\* completed_count is the number of Completed processes.
C19_CompletionStep ==
    [][LET done  == {i \in DOMAIN processes : processes[i].state = COMPLETED}
           done1 == {i \in DOMAIN processes : processes'[i].state = COMPLETED}
       IN  /\ completed_count = Cardinality(done)
           /\ completed_count' = Cardinality(done1)
           /\ \A i \in DOMAIN processes :
                  /\ (pc = "execute" /\ OnCpu(i)
                          /\ processes[i].remaining_time = 1)
                         => /\ processes'[i].state = COMPLETED
                            /\ processes'[i].remaining_time = 0
                            /\ processes'[i].finish_time = current_time + 1
                            /\ cpus'[CpuOf(i)].current_process = NULL
                  /\ (i \in done1 \ done)
                         => /\ pc = "execute"
                            /\ OnCpu(i)
                            /\ processes[i].remaining_time = 1
                            /\ completed_count' > completed_count]_vars

\* at the dispatch of the next tick the CPU on which a process completed in
\* the last tick runs another process, dispatched just now
C19_Witness ==
    /\ pc = "timeline"
    /\ current_time >= 1
    /\ \E i, j \in DOMAIN processes :
           /\ processes[i].state = COMPLETED
           /\ processes[i].finish_time = current_time
           /\ OnCpu(j)
           /\ processes[j].start_time = current_time
           /\ timeline[current_time - 1][CpuOf(j)] = processes[i].pid
    /\ completed_count >= 1

\* C20: under RR, a process whose remaining_time reaches 0 in the same tick
\* in which its quantum_used reaches the quantum is retired as Completed by
\* that tick's execution step, off its CPU, and a Completed process is never
\* in the ready queue afterwards.
C20_CompleteAtQuantumEnd ==
    [][algorithm = RR =>
          \A i \in DOMAIN processes :
              /\ (pc = "execute" /\ OnCpu(i)
                      /\ processes[i].remaining_time = 1
                      /\ processes[i].quantum_used = time_quantum - 1)
                     => /\ processes'[i].state = COMPLETED
                        /\ processes'[i].quantum_used = time_quantum
                        /\ \A c \in DOMAIN cpus : cpus'[c].current_process # i
              /\ processes'[i].state = COMPLETED
                     => \A k \in 1..FCFSQ'.size : QueueContents(FCFSQ')[k] # i]_vars

\* the quantum-expiry step of the tick after such a completion has run: the
\* process finished at this tick with its quantum used up, and it is
\* Completed and not in the ready queue
C20_Witness ==
    /\ algorithm = RR
    /\ pc = "assign"
    /\ \E i \in DOMAIN processes :
           /\ processes[i].state = COMPLETED
           /\ processes[i].quantum_used = time_quantum
           /\ processes[i].finish_time = current_time
           /\ ~InQueue(i)
           /\ ~OnCpu(i)

\* the k-th entry of queue q, counted from the front
Entry(q, k) == Slot(q.process_indices, (q.front + k - 1) % MAX_PROCESSES)

\* process a entered the queue before process b: it arrived at an earlier
\* tick, or at the same tick with a smaller index
InsertedBefore(procs, a, b) ==
    \/ procs[a].arrival_time < procs[b].arrival_time
    \/ (procs[a].arrival_time = procs[b].arrival_time /\ a < b)

\* queue q read from front to rear: remaining_time never goes down, entries
\* of one remaining_time come with the higher priority value first, and
\* entries of one remaining_time and priority come in the order they entered
OrderedQueue(q, procs) ==
    \A k \in 1..(q.size - 1) :
        LET a == Entry(q, k)
            b == Entry(q, k + 1)
        IN  /\ procs[a].remaining_time <= procs[b].remaining_time
            /\ procs[a].remaining_time = procs[b].remaining_time
                   => procs[a].priority >= procs[b].priority
            /\ (procs[a].remaining_time = procs[b].remaining_time
                    /\ procs[a].priority = procs[b].priority)
                   => InsertedBefore(procs, a, b)

\* how far the k-th entry of old has moved back in new, m insertions later
MovedBack(old, new, m, k) ==
    CHOOSE d \in 0..m : Entry(new, k + d) = Entry(old, k)

\* new is old with the entries of added inserted: one more entry for each,
\* and every entry of old still there, in the same relative order
InsertedInto(old, new, added) ==
    LET m == Len(added)
    IN  /\ new.size = old.size + m
        /\ \A j \in 1..m : \E k \in 1..new.size : Entry(new, k) = added[j]
        /\ \A k \in 1..old.size :
               \E d \in 0..m : Entry(new, k + d) = Entry(old, k)
        /\ \A k \in 1..(old.size - 1) :
               MovedBack(old, new, m, k) <= MovedBack(old, new, m, k + 1)

\* new is old without its first entries
DequeuedFrom(old, new) ==
    /\ new.size <= old.size
    /\ \A k \in 1..new.size :
           Entry(new, k) = Entry(old, k + (old.size - new.size))

\* C21: ordered insertion (the SJF queue): after every step the entries from
\* front to rear are in non-decreasing remaining_time order, and entries of
\* the same remaining_time and priority are in the order they were inserted
\* (a new one goes behind all of them); the arrival step adds exactly one
\* entry per arriving process and keeps every entry the queue held, in the
\* same relative order, and the dispatch step only takes entries off the
\* front; all this also when the entries run round the end of the buffer.
C21_OrderedInsertion ==
    [][algorithm = SJF =>
          /\ OrderedQueue(FCFSQ', processes')
          /\ pc = "arrivals" => InsertedInto(FCFSQ, FCFSQ', arrived_indices')
          /\ pc = "assign" => DequeuedFrom(FCFSQ, FCFSQ')
          /\ pc \notin {"arrivals", "assign"} => FCFSQ' = FCFSQ]_vars

\* the SJF queue runs round the end of the buffer after an insertion that
\* shifted entries across the end: this tick's arrival sits in a slot before
\* the end of the buffer, with entries behind it in the slots after the wrap
C21_Witness ==
    /\ algorithm = SJF
    /\ pc = "assign"
    /\ FCFSQ.rear < FCFSQ.front
    /\ \E j \in 1..Len(arrived_indices) :
           \E k \in 1..(FCFSQ.size - 1) :
               /\ Entry(FCFSQ, k) = arrived_indices[j]
               /\ (FCFSQ.front + k - 1) % MAX_PROCESSES >= FCFSQ.front
               /\ processes[Entry(FCFSQ, k)].remaining_time
                      = processes[Entry(FCFSQ, k + 1)].remaining_time
               /\ processes[Entry(FCFSQ, k)].priority
                      > processes[Entry(FCFSQ, k + 1)].priority

\* C22: non-preemption: under FCFS and SJF a process that is on a CPU is
\* still on that same CPU after every step, whatever arrives, until the step
\* that completes it; so every Completed process has
\* finish_time = start_time + burst_time.
C22_NonPreemption ==
    [][(algorithm = FCFS \/ algorithm = SJF) =>
          \A i \in DOMAIN processes :
              /\ OnCpu(i)
                     => (processes'[i].state = COMPLETED
                            \/ cpus'[CpuOf(i)].current_process = i)
              /\ processes'[i].state = COMPLETED
                     => processes'[i].finish_time =
                            processes'[i].start_time + processes[i].burst_time]_vars

\* on one CPU under FCFS or SJF a process of burst 2 has completed although
\* a shorter process arrived while it was running
C22_Witness ==
    /\ algorithm \in {FCFS, SJF}
    /\ cpu_count = 1
    /\ \E i, j \in DOMAIN processes :
           /\ processes[i].state = COMPLETED
           /\ processes[i].burst_time = 2
           /\ processes[i].start_time < processes[j].arrival_time
           /\ processes[j].arrival_time < processes[i].finish_time
           /\ processes[j].burst_time < processes[i].burst_time
           /\ processes[j].start_time >= processes[i].finish_time

\* process i comes before process j in FCFS order: it arrives earlier, or at
\* the same tick and earlier in the input
FcfsBefore(i, j) ==
    \/ processes[i].arrival_time < processes[j].arrival_time
    \/ (processes[i].arrival_time = processes[j].arrival_time /\ i < j)

\* C23: FCFS order: under FCFS with any number of CPUs, if process i has a
\* smaller arrival_time than process j, or the same arrival_time and an
\* earlier position in the input, then i is dispatched no later than j: once
\* j has started, i has started too and start_time(i) <= start_time(j).
C23_FcfsOrder ==
    algorithm = FCFS =>
        \A j \in DOMAIN processes :
            processes[j].start_time # -1
                => \A i \in DOMAIN processes :
                       FcfsBefore(i, j)
                           => /\ processes[i].start_time # -1
                              /\ processes[i].start_time
                                     <= processes[j].start_time

\* entry idx of the ready queue can be dispatched at current_time
Eligible(idx) ==
    /\ processes[idx].state # COMPLETED
    /\ processes[idx].arrival_time <= current_time

\* the entries of the ready queue that can be dispatched, front to rear
EligibleEntries == SelectSeq(QueueContents(FCFSQ), Eligible)

IdleCpus == {c \in DOMAIN cpus : cpus[c].current_process = NULL}

\* the k-th idle CPU in increasing id order
KthIdle(k) ==
    CHOOSE c \in IdleCpus : Cardinality({d \in IdleCpus : d < c}) = k - 1

\* how many entries of the queue one dispatch step takes out: all of them
\* when the eligible entries do not fill the idle CPUs, otherwise those up
\* to the eligible entry that fills the last idle CPU
Taken ==
    LET q == QueueContents(FCFSQ)
        n == Cardinality(IdleCpus)
    IN  IF n = 0 THEN 0
        ELSE IF Len(EligibleEntries) < n THEN Len(q)
        ELSE CHOOSE m \in 1..Len(q) :
                 /\ Eligible(q[m])
                 /\ Cardinality({k \in 1..m : Eligible(q[k])}) = n

\* C24: dispatch fills idle CPUs in increasing CPU-id order from the front
\* of the ready queue: in one dispatch step the k-th idle CPU (by id)
\* receives the k-th eligible entry of the queue, busy CPUs keep their
\* process, and every Completed or not yet arrived entry dequeued on the way
\* leaves the queue and goes to no CPU, without a CPU being skipped for it.
C24_DispatchOrder ==
    [][pc = "assign" =>
          /\ \A k \in 1..Cardinality(IdleCpus) :
                 cpus'[KthIdle(k)].current_process =
                     (IF k <= Len(EligibleEntries)
                      THEN EligibleEntries[k] ELSE NULL)
          /\ \A c \in DOMAIN cpus \ IdleCpus :
                 cpus'[c].current_process = cpus[c].current_process
          /\ QueueContents(FCFSQ') =
                 SubSeq(QueueContents(FCFSQ), Taken + 1, FCFSQ.size)
          /\ \A k \in 1..Taken :
                 ~Eligible(QueueContents(FCFSQ)[k])
                     => /\ processes'[QueueContents(FCFSQ)[k]]
                               = processes[QueueContents(FCFSQ)[k]]
                        /\ \A c \in DOMAIN cpus :
                               cpus'[c].current_process
                                   # QueueContents(FCFSQ)[k]]_vars

\* after a dispatch step the two slots before the front of the queue hold a
\* Completed or not yet arrived entry and then an entry that is now on the
\* lowest CPU that was idle, the other CPU still idle for want of entries
C24_Witness ==
    /\ pc = "timeline"
    /\ cpu_count = 2
    /\ FCFSQ.front = 2
    /\ FCFSQ.size = 0
    /\ LET d == Slot(FCFSQ.process_indices, 0)
           e == Slot(FCFSQ.process_indices, 1)
       IN  /\ ~Eligible(d)
           /\ \A c \in DOMAIN cpus : cpus[c].current_process # d
           /\ cpus[0].current_process = e
           /\ processes[e].start_time = current_time
           /\ cpus[1].current_process = NULL

\* entry a is nearer the front of queue q than entry e
Ahead(q, a, e) ==
    \E k, m \in 1..q.size :
        /\ k < m
        /\ QueueContents(q)[k] = a
        /\ QueueContents(q)[m] = e

\* index i is an entry of queue q
Holds(q, i) == \E k \in 1..q.size : QueueContents(q)[k] = i

C26_TimelineConsistency ==
    [][/\ pc = "execute" =>
             /\ current_time \in DOMAIN timeline
             /\ \A c \in DOMAIN cpus :
                    LET i == cpus[c].current_process
                    IN  IF i # NULL
                        THEN /\ timeline[current_time][c] = processes[i].pid
                             /\ processes'[i].remaining_time
                                    = processes[i].remaining_time - 1
                             /\ cpus'[c].busy_time = cpus[c].busy_time + 1
                        ELSE /\ timeline[current_time][c] = -1
                             /\ cpus'[c].idle_time = cpus[c].idle_time + 1
       /\ pc = "timeline" => current_time \notin DOMAIN timeline
       /\ \A t \in DOMAIN timeline :
             t \in DOMAIN timeline' /\ timeline'[t] = timeline[t]]_vars

\* on two CPUs, after the execute step of a tick later than the first, the
\* row of the tick holds a pid for CPU 0 and -1 for CPU 1, and an earlier
\* row holds pids for both CPUs
C26_Witness ==
    /\ pc = "advance"
    /\ cpu_count = 2
    /\ current_time >= 1
    /\ current_time \in DOMAIN timeline
    /\ timeline[current_time][0] # -1
    /\ timeline[current_time][1] = -1
    /\ \E t \in 0..(current_time - 1) :
           /\ timeline[t][0] # -1
           /\ timeline[t][1] # -1

\* C27: CPU accounting: in every state at a tick boundary (before the
\* arrivals of a tick, and once the loop has ended), for every CPU,
\* busy_time + idle_time equals the number of ticks simulated so far
\* (current_time); the execute step of each tick adds exactly 1 to exactly
\* one of the two counters of each CPU and no other step changes them.
C27_CpuAccounting ==
    [][/\ pc \in {"arrivals", "results", "done"} =>
             \A c \in DOMAIN cpus :
                 cpus[c].busy_time + cpus[c].idle_time = current_time
       /\ \A c \in DOMAIN cpus :
             IF pc = "execute"
             THEN \/ /\ cpus'[c].busy_time = cpus[c].busy_time + 1
                     /\ cpus'[c].idle_time = cpus[c].idle_time
                  \/ /\ cpus'[c].busy_time = cpus[c].busy_time
                     /\ cpus'[c].idle_time = cpus[c].idle_time + 1
             ELSE /\ cpus'[c].busy_time = cpus[c].busy_time
                  /\ cpus'[c].idle_time = cpus[c].idle_time]_vars

\* at the start of a tick, a CPU that has been busy in some ticks and idle in
\* others
C27_Witness ==
    /\ pc = "arrivals"
    /\ current_time >= 2
    /\ \E c \in DOMAIN cpus :
           /\ cpus[c].busy_time >= 1
           /\ cpus[c].idle_time >= 1
           /\ cpus[c].busy_time + cpus[c].idle_time = current_time

\* C28: hard tick cap: for every workload, cpu_count and algorithm, simulate
\* runs at most BRUH_LIMIT + 1 = 101 iterations of its main loop, so
\* current_time, and with it total_time, never exceeds 101, the timeline
\* holds rows of ticks 0..100 only and never grows beyond its initial
\* capacity, and the safety break (current_time > timeline_capacity * 5) is
\* never the condition that ends the loop.
C28_HardTickCap ==
    /\ bruh <= BRUH_LIMIT + 1
    /\ current_time <= BRUH_LIMIT + 1
    /\ DOMAIN timeline \subseteq 0..BRUH_LIMIT
    /\ timeline_capacity = INITIAL_TIMELINE_CAPACITY
    /\ loop_exit # "safety_break"
    /\ ~warned

\* a run ended by the iteration counter after 101 iterations, with
\* processes still not Completed
C28_Witness ==
    /\ pc = "done"
    /\ loop_exit = "bruh_break"
    /\ bruh = BRUH_LIMIT + 1
    /\ current_time = BRUH_LIMIT + 1
    /\ completed_count < process_count

====
